---- MODULE Spec2Model ----
(***************************************************************************)
(* Model of pkg/controller/util.go: the Status Advancer (setPVCStatus),    *)
(* run against one PersistentVolumeClaim stored in the cluster and        *)
(* external writers that update the same claim concurrently. The caller's *)
(* claim comes from a shared informer and may be an older version.        *)
(* The single-shot entry points (pvcFromKey, getEndpoint, getSecretName,  *)
(* createImporterPod) are modelled by HelperSpec, one action for each.    *)
(***************************************************************************)
EXTENDS Integers, Sequences, FiniteSets, TLC

VARIABLES stored, calls, pc, status, heap, pvcClone, newPVC,
          ret, err, trace, elapsed, closed, commits, pvc0, disturbed, updOnTarget, prev,
          helper

vars == <<stored, calls, pc, status, heap, pvcClone, newPVC,
          ret, err, trace, elapsed, closed, commits, pvc0, disturbed, updOnTarget, prev,
          helper>>

-----------------------------------------------------------------------------
(* Bounds of the model *)

\* invocations of setPVCStatus over a whole behaviour
MaxCalls == 2

-----------------------------------------------------------------------------
(* Program constants *)

\* wait.PollImmediate(time.Second*1, time.Second*4, ...): interval and timeout, in seconds
PollInterval == 1

PollTimeout == 4

\* annotation keys of the claim
annStatus == "annStatus"

annEndpoint == "annEndpoint"

Keys == {annStatus, annEndpoint}

\* a key that is not in the Annotations map
Absent == "<absent>"

\* target values of the status annotation
Statuses == {"s1", "s2"}

Endpoints == {"e1", "e2"}

AnnValues(k) == IF k = annStatus THEN Statuses \cup {Absent} ELSE Endpoints

-----------------------------------------------------------------------------
(* Claim objects and references to them *)

\* a *v1.PersistentVolumeClaim: its annotations and its resourceVersion.
\* The resourceVersion is kept relative to the stored claim's: stale is FALSE
\* while the two are equal and TRUE once the stored claim has moved on.
PVC(stale, ann) == [stale |-> stale, ann |-> ann, nil |-> FALSE]

NoAnnotations == [k \in Keys |-> Absent]

\* no object at this address
NilPVC == [stale |-> TRUE, ann |-> NoAnnotations, nil |-> TRUE]

\* &v1.PersistentVolumeClaim{}, what the typed client returns next to an error
EmptyPVC == PVC(TRUE, NoAnnotations)

\* a copy of a claim after the stored claim got a new resourceVersion
Outdated(obj) == [obj EXCEPT !.stale = TRUE]

\* addresses: the caller's claim, its deep copy, the object a Get returned,
\* the object an Update returned
Addrs == {"pvc", "clone", "got", "new"}

NilRef == "nil"

Deref(h, r) == IF r = NilRef THEN NilPVC ELSE h[r]

\* errors a call of setPVCStatus can return
NoErr == [kind |-> "nil", verb |-> "", cause |-> ""]

\* wait.ErrWaitTimeout, "timed out waiting for the condition"
ErrWaitTimeout == [kind |-> "ErrWaitTimeout", verb |-> "", cause |-> ""]

\* fmt.Errorf("setPVCStatus: error %s pvc %s/%s: %v\n", verb, ..., err)
StatusUpdateError(verb, cause) == [kind |-> "setPVCStatus", verb |-> verb, cause |-> cause]

\* the summary of the previous invocation: its target and the number of its
\* update calls; kept when no remote call of it failed, no external write
\* fell into it and its claim did not hold the target
NoPrev == [valid |-> FALSE, status |-> "", updates |-> 0]

-----------------------------------------------------------------------------
(* Pure steps of setPVCStatus *)

\* the check of line 75 is never true
AlreadySetNever(obj, st) == FALSE

\* the check of line 75 compares with != instead of ==
AlreadySetInverted(obj, st) == obj.ann[annStatus] # Absent /\ obj.ann[annStatus] # st

\* the check of line 75 looks the endpoint annotation up
AlreadySetWrongKey(obj, st) == obj.ann[annEndpoint] # Absent /\ obj.ann[annEndpoint] = st

\* val, ok := pvc.Annotations[annStatus]; ok && val == status
AlreadySet(obj, st) == obj.ann[annStatus] # Absent /\ obj.ann[annStatus] = st

\* pvcClone := pvc, no copy made
NoCopy(r) == r

\* pvc.DeepCopy(): the address of the copy
DeepCopy(r) == "clone"

\* the annotation is not set
SetNothing(obj, key, val) == obj

\* metav1.SetMetaDataAnnotation(&obj.ObjectMeta, key, val)
SetMetaDataAnnotation(obj, key, val) == [obj EXCEPT !.ann[key] = val]

\* apierrs.IsConflict(err) for the error of an Update of obj against the stored object
IsConflict(obj, st) == obj.stale # st.stale

\* the object the cluster stores after accepting an Update of obj
Accepted(obj, st) == PVC(FALSE, obj.ann)

\* only the resourceVersion of the re-fetched claim is taken over
RefetchedTokenOnly(old, got) == [old EXCEPT !.stale = got.stale]

\* the re-fetched claim is dropped
RefetchedDropped(old, got) == old

\* pvcClone, err = ...Get(pvc.Name, ...): the copy the next attempt works from
Refetched(old, got) == got

\* the error of the poll is dropped
SwallowedErr(pollErr) == NoErr

\* line 100: return newPVC, err
ReturnedErr(pollErr) == pollErr

\* verb is not reassigned after the re-fetch
VerbNotReassigned == "updating"

\* verb after a failed re-fetch
VerbOfGet == "getting"

\* verb of a failed update
VerbOfUpdate == "updating"

\* the condition returns (false, nil) after a failed update: the poll goes on
AfterUpdateErrorRetry == "wait"

\* line 98: the condition returns (true, err) after a failed update: the
\* poll ends and setPVCStatus returns
AfterUpdateError == "done"

\* instants, in seconds after the poller starts, at which the ticker fires
Ticks == {k * PollInterval : k \in 1..(PollTimeout \div PollInterval)}

\* the most condition calls one PollImmediate makes: the immediate one, one
\* per tick, and one after the poller's channel is closed
MaxAttempts == 1 + Cardinality(Ticks) + 1

\* the remote calls of a trace that were updates, and those that failed
Updates(tr) == {i \in 1..Len(tr) : tr[i] \in {"Update:ok", "Update:conflict", "Update:error"}}

Gets(tr) == {i \in 1..Len(tr) : tr[i] \in {"Get:ok", "Get:error"}}

Failures(tr) == {i \in 1..Len(tr) : tr[i] \in {"Update:conflict", "Update:error", "Get:error"}}

\* the objects that outlive the call: the caller's claim and the claim returned
Returned(h) == [a \in Addrs |-> IF a \in {"pvc", "new"} THEN h[a] ELSE NilPVC]

\* no single-shot entry point has been called
NoCall == [op |-> "none"]

-----------------------------------------------------------------------------
TypeOK ==
    /\ stored.stale = FALSE
    /\ pc \in {"idle", "update", "get", "wait", "done"}
    /\ status \in Statuses \cup {""}
    /\ pvcClone \in Addrs \cup {NilRef}
    /\ newPVC \in Addrs \cup {NilRef}
    /\ ret \in Addrs \cup {NilRef}
    /\ elapsed \in 0..PollTimeout
    /\ closed \in BOOLEAN
    /\ calls \in 0..MaxCalls
    /\ disturbed \in BOOLEAN

Init ==
    /\ \E s \in Statuses \cup {Absent} : stored = PVC(FALSE, [k \in Keys |-> IF k = annStatus THEN s ELSE "e1"])
    /\ calls = 0
    /\ pc = "idle"
    /\ status = ""
    /\ heap = [a \in Addrs |-> NilPVC]
    /\ pvcClone = NilRef
    /\ newPVC = NilRef
    /\ ret = NilRef
    /\ err = NoErr
    /\ trace = <<>>
    /\ elapsed = 0
    /\ closed = FALSE
    /\ commits = <<>>
    /\ pvc0 = NilPVC
    /\ disturbed = FALSE
    /\ updOnTarget = FALSE
    /\ prev = NoPrev
    /\ helper = NoCall

-----------------------------------------------------------------------------
(* The environment: other writers of the claim *)

\* the environment is followed until the last invocation has returned
Running == pc # "done" \/ calls < MaxCalls

\* another controller or a user updates the claim: one annotation changes
\* and the resourceVersion moves on
ExternalWrite ==
    /\ UNCHANGED helper
    /\ Running
    /\ \E k \in Keys : \E v \in AnnValues(k) :
          /\ v # stored.ann[k]
          /\ stored' = PVC(FALSE, [stored.ann EXCEPT ![k] = v])
    /\ heap' = [a \in Addrs |-> Outdated(heap[a])]
    /\ pvc0' = Outdated(pvc0)
    /\ disturbed' = TRUE
    /\ UNCHANGED <<calls, pc, status, pvcClone, newPVC, ret, err, trace,
                   elapsed, closed, commits, updOnTarget, prev>>

-----------------------------------------------------------------------------
(* setPVCStatus(pvc, status) *)

\* the summary kept of the invocation that has just returned
Summary == IF Failures(trace) = {} /\ ~disturbed /\ pvc0.ann[annStatus] # status THEN [valid |-> TRUE, status |-> status, updates |-> Cardinality(Updates(trace))] ELSE NoPrev

\* every annotation map a claim can carry
AnnMaps == {a \in [Keys -> Statuses \cup Endpoints \cup {Absent}] : \A k \in Keys : a[k] \in AnnValues(k)}

\* the claim the caller passes: the informer's object, which is the stored
\* claim or an older version of it, or the claim the previous invocation
\* returned
Inputs == {stored} \cup {PVC(TRUE, a) : a \in AnnMaps} \cup (IF pc = "done" /\ err = NoErr THEN {Deref(heap, ret)} ELSE {})

\* lines 74-79: the caller's claim is at address "pvc"; return it when the
\* annotation is already set, else clone it and start polling
Enter ==
    /\ UNCHANGED helper
    /\ pc \in {"idle", "done"}
    /\ calls < MaxCalls
    /\ \E st \in Statuses : \E input \in Inputs :
          LET h0 == [a \in Addrs |-> IF a = "pvc" THEN input ELSE NilPVC]
          IN  /\ status' = st
              /\ pvc0' = input
              /\ IF AlreadySet(input, st)
                 THEN /\ heap' = h0
                      /\ pvcClone' = NilRef
                      /\ ret' = "pvc"
                      /\ pc' = "done"
                 ELSE /\ heap' = [h0 EXCEPT ![DeepCopy("pvc")] = input]
                      /\ pvcClone' = DeepCopy("pvc")
                      /\ ret' = NilRef
                      /\ pc' = "update"
    /\ prev' = IF pc = "done" THEN Summary ELSE NoPrev
    /\ calls' = calls + 1
    /\ disturbed' = FALSE
    /\ newPVC' = NilRef
    /\ err' = NoErr
    /\ trace' = <<>>
    /\ elapsed' = 0
    /\ closed' = FALSE
    /\ commits' = <<>>
    /\ updOnTarget' = FALSE
    /\ UNCHANGED stored

\* line 85: the annotation is set on the object pvcClone points to
Annotated == [heap EXCEPT ![pvcClone] = SetMetaDataAnnotation(heap[pvcClone], annStatus, status)]

\* lines 85-88: the update is accepted; the condition returns (true, nil)
UpdateOK ==
    /\ UNCHANGED helper
    /\ pc = "update"
    /\ ~IsConflict(Annotated[pvcClone], stored)
    /\ stored' = Accepted(Annotated[pvcClone], stored)
    /\ heap' = Returned([a \in Addrs |-> IF a = "new" THEN stored' ELSE Outdated(Annotated[a])])
    /\ pvc0' = Outdated(pvc0)
    /\ newPVC' = "new"
    /\ ret' = "new"
    /\ err' = ReturnedErr(NoErr)
    /\ pc' = "done"
    /\ trace' = Append(trace, "Update:ok")
    /\ commits' = Append(commits, stored')
    /\ updOnTarget' = (updOnTarget \/ AlreadySet(heap[pvcClone], status))
    /\ UNCHANGED <<calls, status, pvcClone, elapsed, closed, disturbed, prev>>

\* lines 85-91: the update is rejected with a version conflict
UpdateConflict ==
    /\ UNCHANGED helper
    /\ pc = "update"
    /\ IsConflict(Annotated[pvcClone], stored)
    /\ newPVC' = "new"
    /\ heap' = [Annotated EXCEPT !["new"] = EmptyPVC]
    /\ pc' = "get"
    /\ trace' = Append(trace, "Update:conflict")
    /\ updOnTarget' = (updOnTarget \/ AlreadySet(heap[pvcClone], status))
    /\ UNCHANGED <<stored, calls, status, pvcClone, ret, err, elapsed,
                   closed, commits, pvc0, disturbed, prev>>

\* lines 85-90, 98: the update fails with another error; the condition
\* returns (true, err) and setPVCStatus returns newPVC, err
UpdateError ==
    /\ UNCHANGED helper
    /\ pc = "update"
    /\ newPVC' = "new"
    /\ ret' = "new"
    /\ heap' = Returned([Annotated EXCEPT !["new"] = EmptyPVC])
    /\ err' = ReturnedErr(StatusUpdateError(VerbOfUpdate, "update failed"))
    /\ pc' = AfterUpdateError
    /\ trace' = Append(trace, "Update:error")
    /\ updOnTarget' = (updOnTarget \/ AlreadySet(heap[pvcClone], status))
    /\ UNCHANGED <<stored, calls, status, pvcClone, elapsed, closed,
                   commits, pvc0, disturbed, prev>>

\* lines 92-94: the re-fetch succeeds; the condition returns (false, nil).
\* After the poller's channel was closed the poll ends with ErrWaitTimeout.
GetOK ==
    /\ UNCHANGED helper
    /\ pc = "get"
    /\ pvcClone' = "got"
    /\ trace' = Append(trace, "Get:ok")
    /\ IF closed
       THEN /\ pc' = "done"
            /\ err' = ReturnedErr(ErrWaitTimeout)
            /\ ret' = newPVC
            /\ heap' = Returned(heap)
       ELSE /\ pc' = "wait"
            /\ heap' = [a \in Addrs |-> IF a = "got" THEN Refetched(heap[pvcClone], stored) ELSE IF a = "clone" THEN NilPVC ELSE heap[a]]
            /\ UNCHANGED <<err, ret>>
    /\ UNCHANGED <<stored, calls, status, newPVC, elapsed, closed,
                   commits, pvc0, disturbed, updOnTarget, prev>>

\* lines 92-98: the re-fetch fails; the condition returns (true, err)
GetError ==
    /\ UNCHANGED helper
    /\ pc = "get"
    /\ pvcClone' = NilRef
    /\ trace' = Append(trace, "Get:error")
    /\ err' = ReturnedErr(StatusUpdateError(VerbOfGet, "get failed"))
    /\ ret' = newPVC
    /\ pc' = "done"
    /\ heap' = Returned(heap)
    /\ UNCHANGED <<stored, calls, status, newPVC, elapsed, closed,
                   commits, pvc0, disturbed, updOnTarget, prev>>

\* line 83: the ticker fires and the condition is called again
Tick ==
    /\ UNCHANGED helper
    /\ pc = "wait"
    /\ ~closed
    /\ elapsed + PollInterval \in Ticks
    /\ elapsed' = elapsed + PollInterval
    /\ pc' = "update"
    /\ UNCHANGED <<stored, calls, status, heap, pvcClone, newPVC, ret, err,
                   trace, closed, commits, pvc0, disturbed, updOnTarget, prev>>

\* the timeout never passes
TimedOutNever == FALSE

\* the timeout can pass once the first tick was delivered
TimedOut == pc = "wait" /\ ~closed /\ elapsed >= PollInterval

\* line 83: the timeout passes and the poller closes its channel; this
\* version of wait.WaitFor calls the condition one last time
TimeoutLastCall ==
    /\ UNCHANGED helper
    /\ TimedOut
    /\ elapsed' = PollTimeout
    /\ closed' = TRUE
    /\ pc' = "update"
    /\ UNCHANGED <<stored, calls, status, heap, pvcClone, newPVC, ret, err,
                   trace, commits, pvc0, disturbed, updOnTarget, prev>>

\* line 83, 100: the timeout passes and PollImmediate returns ErrWaitTimeout
TimeoutReturn ==
    /\ UNCHANGED helper
    /\ TimedOut
    /\ elapsed' = PollTimeout
    /\ closed' = TRUE
    /\ err' = ReturnedErr(ErrWaitTimeout)
    /\ ret' = newPVC
    /\ pc' = "done"
    /\ heap' = Returned(heap)
    /\ UNCHANGED <<stored, calls, status, pvcClone, newPVC, trace,
                   commits, pvc0, disturbed, updOnTarget, prev>>

\* the steps of one invocation after its entry
Advance == UpdateOK \/ UpdateConflict \/ UpdateError \/ GetOK \/ GetError \/ Tick \/ TimeoutLastCall \/ TimeoutReturn

Next ==
    \/ ExternalWrite
    \/ Enter
    \/ UpdateOK
    \/ UpdateConflict
    \/ UpdateError
    \/ GetOK
    \/ GetError
    \/ Tick
    \/ TimeoutLastCall
    \/ TimeoutReturn

Spec == Init /\ [][Next]_vars

\* a started invocation keeps running: remote calls return and the poller's
\* ticker and timer fire
FairSpec == Spec /\ WF_vars(Advance)

-----------------------------------------------------------------------------
(* The single-shot entry points: claims, annotations, names *)

\* the length of a claim name
MaxNameLen == 2

\* the variables of the Status Advancer
statusVars == <<stored, calls, pc, status, heap, pvcClone, newPVC, ret, err, trace,
                elapsed, closed, commits, pvc0, disturbed, updOnTarget, prev>>

\* the credential-reference annotation key
annSecret == "annSecret"

\* names are strings, kept as sequences of characters
Chars == {"a", "-"}

Names == UNION {[1..n -> Chars] : n \in 1..MaxNameLen}

SecretNames == {"sec1", "sec2"}

\* the annotations the entry points read: a key is absent, blank or set
HelperAnnMaps == {a \in [{annEndpoint, annSecret} -> Endpoints \cup SecretNames \cup {"", Absent}] : a[annEndpoint] \in Endpoints \cup {"", Absent} /\ a[annSecret] \in SecretNames \cup {"", Absent}}

\* the claims passed to the entry points
Claims == {[name |-> n, ann |-> a] : n \in Names, a \in HelperAnnMaps}

\* v, found := m[k]: the zero value "" comes with found = false
Lookup(ann, k) == [val |-> IF ann[k] = Absent THEN "" ELSE ann[k], found |-> ann[k] # Absent]

\* fmt.Errorf of an entry point
HelperError(fn, cause) == [kind |-> fn, verb |-> "", cause |-> cause]

-----------------------------------------------------------------------------
(* pvcFromKey(key) *)

\* work queue keys: a string, or an object of another type
QueueKeys == {[isString |-> TRUE, str |-> "ns/a"], [isString |-> FALSE, str |-> ""]}

\* what GetIndexer().GetByKey returns: (obj, ok, err)
IndexerResults == {[obj |-> "pvc", ok |-> TRUE, failed |-> FALSE], [obj |-> "nil", ok |-> FALSE, failed |-> FALSE], [obj |-> "nil", ok |-> FALSE, failed |-> TRUE], [obj |-> "pvc", ok |-> TRUE, failed |-> TRUE], [obj |-> "other", ok |-> TRUE, failed |-> FALSE]}

\* lines 21-32: the result for what GetByKey returned
pvcFromIndexer(r) == IF ~r.ok THEN [pvc |-> "nil", err |-> NoErr] ELSE IF r.failed THEN [pvc |-> "nil", err |-> HelperError("pvcFromKey", "Error getting key from cache")] ELSE IF r.obj # "pvc" THEN [pvc |-> "nil", err |-> HelperError("pvcFromKey", "Object not of type *v1.PersistentVolumeClaim")] ELSE [pvc |-> r.obj, err |-> NoErr]

\* lines 16-33
PvcFromKey ==
    /\ helper = NoCall
    /\ \E key \in QueueKeys :
          IF ~key.isString
          THEN helper' = [op |-> "pvcFromKey", key |-> key, out |-> "nil", err |-> HelperError("pvcFromKey", "key object not of type string"), remote |-> <<>>]
          ELSE \E r \in IndexerResults :
                  helper' = [op |-> "pvcFromKey", key |-> key, out |-> pvcFromIndexer(r).pvc, err |-> pvcFromIndexer(r).err, remote |-> <<[call |-> "GetByKey", key |-> key.str, failed |-> r.failed, result |-> r]>>]
    /\ UNCHANGED statusVars

-----------------------------------------------------------------------------
(* getEndpoint(pvc) *)

\* the endpoint counts as missing only when the key is absent
EndpointMissingAbsentOnly(l) == ~l.found

\* line 38: !found || ep == ""
EndpointMissing(l) == ~l.found \/ l.val = ""

\* lines 36-43
GetEndpoint ==
    /\ helper = NoCall
    /\ \E pvc \in Claims :
          LET l == Lookup(pvc.ann, annEndpoint)
          IN  helper' = [op |-> "getEndpoint", pvc |-> pvc, out |-> l.val, err |-> IF EndpointMissing(l) THEN HelperError("getEndpoint", "annotation is missing or is blank") ELSE NoErr, remote |-> <<>>]
    /\ UNCHANGED statusVars

-----------------------------------------------------------------------------
(* getSecretName(pvc) *)

\* what Secrets(ns).Get returns: the secret, a "not found" error, another error
SecretGetResults == {"ok", "notfound", "error"}

\* the secret counts as undeclared only when the key is absent
NoSecretDeclaredAbsentOnly(l) == ~l.found

\* line 51: !found || name == ""
NoSecretDeclared(l) == ~l.found \/ l.val = ""

\* "not found" is not told apart from other errors
IsNotFoundNever(res) == FALSE

\* line 63: apierrs.IsNotFound(err)
IsNotFound(res) == res = "notfound"

\* lines 63-70: the result for what Secrets(ns).Get returned
secretNameFor(name, res) == IF IsNotFound(res) THEN [name |-> name, err |-> NoErr] ELSE IF res # "ok" THEN [name |-> "", err |-> HelperError("getEndpointSecret", "error getting secret")] ELSE [name |-> name, err |-> NoErr]

\* lines 48-71
GetSecretName ==
    /\ helper = NoCall
    /\ \E pvc \in Claims :
          LET l == Lookup(pvc.ann, annSecret)
          IN  IF NoSecretDeclared(l)
              THEN helper' = [op |-> "getSecretName", pvc |-> pvc, out |-> "", err |-> NoErr, remote |-> <<>>]
              ELSE \E res \in SecretGetResults :
                      helper' = [op |-> "getSecretName", pvc |-> pvc, out |-> secretNameFor(l.val, res).name, err |-> secretNameFor(l.val, res).err, remote |-> <<[call |-> "Secrets.Get", name |-> l.val, failed |-> res # "ok", result |-> res]>>]
    /\ UNCHANGED statusVars

-----------------------------------------------------------------------------
(* createImporterPod(ep, secretName, pvc), makeImporterPodSpec, makeEnv *)

\* common.IMPORTER_PODNAME
IMPORTER_PODNAME == <<"IMPORTER_PODNAME">>

\* names of the environment entries and keys of the secret
IMPORTER_ENDPOINT == "IMPORTER_ENDPOINT"

IMPORTER_ACCESS_KEY_ID == "IMPORTER_ACCESS_KEY_ID"

IMPORTER_SECRET_KEY == "IMPORTER_SECRET_KEY"

KeyAccess == "KeyAccess"

KeySecret == "KeySecret"

\* no ValueFrom
NoRef == [name |-> "", key |-> ""]

\* v1.EnvVar{Name, Value}
EnvValue(n, v) == [name |-> n, value |-> v, ref |-> NoRef]

\* v1.EnvVar{Name, ValueFrom: SecretKeyRef{Name, Key}}
EnvFromSecret(n, secret, key) == [name |-> n, value |-> "", ref |-> [name |-> secret, key |-> key]]

\* the credential entries are appended whatever the name
HasCredentialsAlways(secret) == TRUE

\* line 173: secret != ""
HasCredentials(secret) == secret # ""

\* lines 166-197
makeEnv(endpoint, secret) == IF HasCredentials(secret) THEN <<EnvValue(IMPORTER_ENDPOINT, endpoint), EnvFromSecret(IMPORTER_ACCESS_KEY_ID, secret, KeyAccess), EnvFromSecret(IMPORTER_SECRET_KEY, secret, KeySecret)>> ELSE <<EnvValue(IMPORTER_ENDPOINT, endpoint)>>

\* the pod name keeps only the first character of the claim name
PodNameTruncated(name) == IMPORTER_PODNAME \o <<"-">> \o SubSeq(name, 1, 1)

\* line 121: fmt.Sprintf("%s-%s", common.IMPORTER_PODNAME, pvc.Name)
PodName(name) == IMPORTER_PODNAME \o <<"-">> \o name

\* the volume is bound read-only
DataVolumeReadOnly(pvc) == [name |-> "data-path", claimName |-> pvc.name, readOnly |-> TRUE]

\* lines 149-157: the volume bound to the claim
DataVolume(pvc) == [name |-> "data-path", claimName |-> pvc.name, readOnly |-> FALSE]

\* lines 119-163; uid is what the cluster assigns at creation
makeImporterPodSpec(ep, secret, pvc) == [name |-> PodName(pvc.name), uid |-> "", annotations |-> {"annCreatedBy"}, containers |-> <<[name |-> IMPORTER_PODNAME, volumeMounts |-> <<"data-path">>, env |-> makeEnv(ep, secret)]>>, restartPolicy |-> "Never", volumes |-> <<DataVolume(pvc)>>]

\* no pod: a nil *v1.Pod
NilPod == [name |-> <<>>, uid |-> "", annotations |-> {}, containers |-> <<>>, restartPolicy |-> "", volumes |-> <<>>]

\* the pod Pods(ns).Create returns when it succeeds
Created(pod) == [pod EXCEPT !.uid = "uid-1"]

\* what Pods(ns).Create returns: the created pod, or an error
CreateResults == {"ok", "error"}

\* the error of Create is not looked at
CreateFailedNever(res) == FALSE

\* line 111: err != nil
CreateFailed(res) == res # "ok"

\* the endpoints and secret names createImporterPod is called with
EndpointArgs == Endpoints \cup {""}

SecretArgs == SecretNames \cup {""}

\* lines 106-116
CreateImporterPod ==
    /\ helper = NoCall
    /\ \E ep \in EndpointArgs : \E secret \in SecretArgs : \E pvc \in Claims : \E res \in CreateResults :
          LET pod == makeImporterPodSpec(ep, secret, pvc)
              returned == IF res = "ok" THEN Created(pod) ELSE NilPod
          IN  helper' = [op |-> "createImporterPod", ep |-> ep, secret |-> secret, pvc |-> pvc, manifest |-> pod, out |-> IF CreateFailed(res) THEN NilPod ELSE returned, err |-> IF CreateFailed(res) THEN HelperError("createImporterPod", "Create failed") ELSE NoErr, remote |-> <<[call |-> "Pods.Create", pod |-> pod, failed |-> res # "ok", result |-> res]>>]
    /\ UNCHANGED statusVars

HelperNext ==
    \/ PvcFromKey
    \/ GetEndpoint
    \/ GetSecretName
    \/ CreateImporterPod

\* one call of one entry point, on any input and with any answer of the
\* cluster
HelperSpec == Init /\ [][HelperNext]_vars

-----------------------------------------------------------------------------
(* Properties of setPVCStatus *)

\* the invocation has returned
Done == pc = "done"

\* the number of update calls of the invocation so far
NUpdates == Cardinality(Updates(trace))

\* the last remote call of the invocation
LastCall == IF trace = <<>> THEN "" ELSE trace[Len(trace)]

\* this step commits a write of the invocation
Commits == Len(commits') > Len(commits)

\* C1: when setPVCStatus returns without error, the claim it returns carries
\* the target value in its status annotation, and a write it issued stored a
\* claim carrying the target value, whatever external writers did meanwhile.
C1_StatusSetOnSuccess ==
    (Done /\ err = NoErr) =>
        /\ ret # NilRef
        /\ ~Deref(heap, ret).nil
        /\ Deref(heap, ret).ann[annStatus] = status
        /\ trace # <<>> => /\ Len(commits) = 1
                           /\ commits[1].ann[annStatus] = status
                           /\ Deref(heap, ret).ann = commits[1].ann

\* C1 witness: a successful return after a conflict caused by an external write
C1_Witness ==
    /\ Done
    /\ err = NoErr
    /\ disturbed
    /\ "Update:conflict" \in {trace[i] : i \in 1..Len(trace)}
    /\ LastCall = "Update:ok"

\* C2: a write the Status Advancer commits is conditioned on the token of the
\* version stored at that moment, and the stored claim differs from the one
\* stored right before only in the status annotation: what other writers
\* changed since the invocation read the claim is preserved.
C2_NoBlindOverwrite ==
    [][Commits =>
          /\ ~IsConflict(heap[pvcClone], stored)
          /\ stored'.ann[annStatus] = status
          /\ \A k \in Keys \ {annStatus} : stored'.ann[k] = stored.ann[k]]_vars

\* C2 witness: after a conflict and a re-fetch the write went through and the
\* endpoint annotation an external writer changed meanwhile is still stored
C2_Witness ==
    /\ Done
    /\ err = NoErr
    /\ trace = <<"Update:conflict", "Get:ok", "Update:ok">>
    /\ Len(commits) = 1
    /\ stored = commits[1]
    /\ stored.ann[annEndpoint] # pvc0.ann[annEndpoint]

\* C3: after a version conflict on the first update the latest claim is
\* re-fetched, the poll calls the condition again within the budget, and with
\* no further modification of the claim the second update is accepted (unless
\* it fails for another reason) and the invocation returns without error.
C3_SecondAttemptSucceeds ==
    [][/\ (trace = <<"Update:conflict">> /\ trace' = <<"Update:conflict", "Get:ok">>) =>
              /\ pc' = "wait"
              /\ heap'[pvcClone'] = stored
       /\ (trace = <<"Update:conflict", "Get:ok">> /\ pc = "wait" /\ pc' # "wait") =>
              /\ pc' = "update"
              /\ ~closed'
              /\ elapsed' <= PollTimeout
              /\ trace' = trace
       /\ (trace = <<"Update:conflict", "Get:ok">> /\ pc = "update" /\ ~heap[pvcClone].stale /\ trace' # trace) =>
              \/ trace' = Append(trace, "Update:error")
              \/ /\ trace' = Append(trace, "Update:ok")
                 /\ pc' = "done"
                 /\ err' = NoErr
                 /\ heap'[ret'].ann[annStatus] = status]_vars

\* C3 witness: one conflict, one re-fetch, success on the second update
C3_Witness ==
    /\ Done
    /\ err = NoErr
    /\ trace = <<"Update:conflict", "Get:ok", "Update:ok">>
    /\ ~disturbed
    /\ elapsed = PollInterval
    /\ ~closed

\* an invocation is between its entry and its return
Polling == pc \in {"update", "get", "wait"}

\* C4: every invocation of setPVCStatus terminates: the update calls of one
\* invocation never exceed the retry budget, the poll never runs past its
\* timeout, and a started invocation always returns, whatever external
\* writers do.
C4_Terminates ==
    /\ [](NUpdates <= MaxAttempts /\ elapsed <= PollTimeout)
    /\ [][pc = "wait" /\ pc' = "update" => elapsed' > elapsed \/ closed']_vars
    /\ (Polling ~> Done)

\* C4 witness: an invocation that used the whole budget, every update of it
\* rejected with a conflict, has returned
C4_Witness ==
    /\ Done
    /\ NUpdates = MaxAttempts
    /\ \A i \in Updates(trace) : trace[i] = "Update:conflict"

C6_NoOpWhenAlreadySet ==
    (Done /\ pvc0.ann[annStatus] = status) =>
        /\ ret = "pvc"
        /\ err = NoErr
        /\ trace = <<>>
        /\ commits = <<>>
        /\ heap["pvc"] = pvc0

\* C6 witness: a no-op return on a claim that is an older version of the
\* stored one
C6_Witness ==
    /\ Done
    /\ pvc0.ann[annStatus] = status
    /\ pvc0.stale
    /\ ret = "pvc"

\* C7: two invocations in succession with the same target, the first on a
\* claim that does not hold the target, with no failed remote call and no
\* external write, issue exactly one update call in total.
C7_IdempotentTwice ==
    (Done /\ prev.valid /\ prev.status = status /\ Failures(trace) = {} /\ ~disturbed) =>
        prev.updates + NUpdates = 1

\* C7 witness: the second of two such invocations has returned
C7_Witness ==
    /\ Done
    /\ calls = 2
    /\ prev.valid
    /\ prev.status = status
    /\ prev.updates = 1
    /\ Failures(trace) = {}
    /\ ~disturbed
    /\ err = NoErr

\* C8 as stated: no update call is issued for a copy (the caller's claim or a
\* re-fetched copy) that already holds the target value.
C8_NoUpdateForCopyHoldingTarget == ~updOnTarget

\* C8 as amended: no update call is issued when the caller's claim already
\* holds the target value; a copy re-fetched after a conflict is updated
\* whether or not it holds the target value.
C8_NoUpdateWhenCallerHoldsTarget ==
    /\ pvc0.ann[annStatus] = status => NUpdates = 0
    /\ updOnTarget => "Get:ok" \in {trace[i] : i \in 1..Len(trace)}

\* C8 witness: an update was issued, and accepted, for a re-fetched copy
\* that already held the target value
C8_Witness ==
    /\ Done
    /\ updOnTarget
    /\ err = NoErr
    /\ LastCall = "Update:ok"

\* C9: setPVCStatus never changes the claim object the caller passed: on
\* every path it has the annotations and the token it had at the entry.
C9_CallerClaimUnchanged == calls > 0 => heap["pvc"] = pvc0

\* C9 witness: a return after a conflict, a re-fetch and an accepted update,
\* with the caller's claim still without the target value
C9_Witness ==
    /\ Done
    /\ err = NoErr
    /\ trace = <<"Update:conflict", "Get:ok", "Update:ok">>
    /\ heap["pvc"].ann[annStatus] # status
    /\ heap[ret].ann[annStatus] = status

\* the remote calls of a trace that failed with something else than a conflict
Errors(tr) == {i \in 1..Len(tr) : tr[i] \in {"Update:error", "Get:error"}}

\* C10: a failure other than a version conflict ends the invocation at once:
\* it is the last remote call, the invocation has returned, and the error is
\* one of setPVCStatus naming "updating" for a failed update and "getting"
\* for a failed re-fetch, which only follows a conflict.
C10_OtherFailureAborts ==
    /\ \A i \in Errors(trace) : i = Len(trace) /\ Done
    /\ (Done /\ LastCall = "Update:error") => (err.kind = "setPVCStatus" /\ err.verb = "updating")
    /\ (Done /\ LastCall = "Get:error") =>
          /\ err.kind = "setPVCStatus"
          /\ err.verb = "getting"
          /\ Len(trace) >= 2
          /\ trace[Len(trace) - 1] = "Update:conflict"
    /\ (Done /\ Errors(trace) # {}) => commits = <<>>

\* C10 witness: a re-fetch failed after an earlier retry
C10_Witness ==
    /\ Done
    /\ LastCall = "Get:error"
    /\ Len(trace) = 4
    /\ err.verb = "getting"


\* the kinds of remote calls in a trace
UpdateCalls == {"Update:ok", "Update:conflict", "Update:error"}

GetCalls == {"Get:ok", "Get:error"}

\* C19: the remote calls of an invocation follow Update (Get Update)*: the
\* first call is an update, a get comes only right after an update rejected
\* with a conflict, an update after the first only right after a successful
\* get, nothing follows an accepted update or a non-conflict failure, at
\* most one update is committed, and an invocation that returns an error
\* has committed nothing.
C19_UpdateGetProtocol ==
    /\ trace # <<>> => trace[1] \in UpdateCalls
    /\ \A i \in 1..Len(trace) :
          /\ trace[i] \in GetCalls => (i > 1 /\ trace[i - 1] = "Update:conflict")
          /\ (trace[i] \in UpdateCalls /\ i > 1) => trace[i - 1] = "Get:ok"
          /\ trace[i] \in {"Update:ok", "Update:error", "Get:error"} => (i = Len(trace) /\ Done)
    /\ (pc = "get") <=> (LastCall = "Update:conflict")
    /\ Len(commits) <= 1
    /\ Len(commits) = Cardinality({i \in 1..Len(trace) : trace[i] = "Update:ok"})
    /\ (Done /\ err # NoErr) => commits = <<>>
    /\ (Done /\ ret = "pvc") => trace = <<>>

\* C19 witness: two rounds of conflict and re-fetch, then an accepted update
C19_Witness ==
    /\ Done
    /\ err = NoErr
    /\ trace = <<"Update:conflict", "Get:ok", "Update:conflict", "Get:ok", "Update:ok">>
    /\ Len(commits) = 1

-----------------------------------------------------------------------------
(* Properties of the single-shot entry points *)

\* the entry point that was called
Called(op) == helper.op = op

\* the annotation of the claim the entry point was called with
HelperAnn(k) == helper.pvc.ann[k]

\* C11: for a claim whose credential annotation names a secret,
\* getSecretName looks the secret up and returns an error exactly when the
\* lookup fails with something else than "not found": on "not found" and on
\* success it returns the declared name and no error, otherwise no name and
\* an error of the lookup.
C11_SecretNotFoundIsNoError ==
    (Called("getSecretName") /\ HelperAnn(annSecret) \notin {Absent, ""}) =>
        /\ Len(helper.remote) = 1
        /\ (helper.err # NoErr) <=> (helper.remote[1].result = "error")
        /\ helper.remote[1].result \in {"ok", "notfound"} => (helper.out = HelperAnn(annSecret) /\ helper.err = NoErr)
        /\ helper.remote[1].result = "error" => (helper.out = "" /\ helper.err.kind = "getEndpointSecret")

\* C11 witness: the named secret does not exist and the name is returned
C11_Witness ==
    /\ Called("getSecretName")
    /\ HelperAnn(annSecret) = "sec1"
    /\ helper.remote[1].result = "notfound"
    /\ helper.out = "sec1"
    /\ helper.err = NoErr

\* C12: with the credential annotation absent or blank getSecretName returns
\* the empty name and no error and makes no remote call; with a name in it,
\* it makes exactly one remote call, a read of that secret.
C12_SecretLookupOnlyWhenNamed ==
    Called("getSecretName") =>
        /\ HelperAnn(annSecret) \in {Absent, ""} => (helper.out = "" /\ helper.err = NoErr /\ helper.remote = <<>>)
        /\ HelperAnn(annSecret) \notin {Absent, ""} =>
              /\ Len(helper.remote) = 1
              /\ helper.remote[1].call = "Secrets.Get"
              /\ helper.remote[1].name = HelperAnn(annSecret)

\* C12 witness: the annotation is there but blank, and nothing was looked up
C12_Witness ==
    /\ Called("getSecretName")
    /\ HelperAnn(annSecret) = ""
    /\ helper.remote = <<>>
    /\ helper.out = ""

\* C13: with the endpoint annotation absent or empty getEndpoint fails, and
\* with a value in it getEndpoint returns that value and no error; it makes
\* no remote call.
C13_EndpointMissingOrReturned ==
    Called("getEndpoint") =>
        /\ helper.remote = <<>>
        /\ HelperAnn(annEndpoint) \in {Absent, ""} => (helper.err # NoErr /\ helper.err.kind = "getEndpoint" /\ helper.out = "")
        /\ HelperAnn(annEndpoint) \notin {Absent, ""} => (helper.out = HelperAnn(annEndpoint) /\ helper.err = NoErr)

\* C13 witness: the annotation is there but empty, and getEndpoint failed
C13_Witness ==
    /\ Called("getEndpoint")
    /\ HelperAnn(annEndpoint) = ""
    /\ helper.err.kind = "getEndpoint"

\* the remote call is the lookup of a secret that was not found
DocumentedNotFound(c) == c.call = "Secrets.Get" /\ c.result = "notfound"

\* C14: apart from the credential "not found" case, a failure a collaborator
\* call reports makes the entry point that issued it return an error.
C14_NoErrorSwallowed ==
    ~Called("none") =>
        \A i \in 1..Len(helper.remote) :
            (helper.remote[i].failed /\ ~DocumentedNotFound(helper.remote[i])) => helper.err # NoErr

\* the environment entries of the manifest createImporterPod built
ManifestEnv == helper.manifest.containers[1].env

\* the entries of an environment list with the given name
EnvEntries(env, n) == {i \in 1..Len(env) : env[i].name = n}

\* C15: the environment list has exactly one endpoint entry, carrying the
\* endpoint value, and the access-id and access-secret entries, each
\* referencing the credential by name with its fixed key, exactly when the
\* credential name is not empty: three entries then, one otherwise.
C15_EnvEntries ==
    Called("createImporterPod") =>
        /\ Cardinality(EnvEntries(ManifestEnv, IMPORTER_ENDPOINT)) = 1
        /\ \A i \in EnvEntries(ManifestEnv, IMPORTER_ENDPOINT) : ManifestEnv[i].value = helper.ep /\ ManifestEnv[i].ref = NoRef
        /\ Len(ManifestEnv) = IF helper.secret # "" THEN 3 ELSE 1
        /\ (helper.secret # "") <=> (\E i \in 1..Len(ManifestEnv) : ManifestEnv[i].ref # NoRef)
        /\ helper.secret # "" =>
              /\ \E i \in 1..Len(ManifestEnv) : ManifestEnv[i] = [name |-> IMPORTER_ACCESS_KEY_ID, value |-> "", ref |-> [name |-> helper.secret, key |-> KeyAccess]]
              /\ \E i \in 1..Len(ManifestEnv) : ManifestEnv[i] = [name |-> IMPORTER_SECRET_KEY, value |-> "", ref |-> [name |-> helper.secret, key |-> KeySecret]]

\* C15 witness: a manifest built with a credential name has three entries
C15_Witness ==
    /\ Called("createImporterPod")
    /\ helper.secret = "sec2"
    /\ Len(ManifestEnv) = 3

\* C16: createImporterPod makes exactly one remote call, the creation of the
\* manifest it built; when that fails it returns an error and no pod, when
\* it succeeds it returns the pod the cluster created and no error.
C16_OneCreateCall ==
    Called("createImporterPod") =>
        /\ Len(helper.remote) = 1
        /\ helper.remote[1].call = "Pods.Create"
        /\ helper.remote[1].pod = helper.manifest
        /\ helper.remote[1].result = "error" => (helper.err.kind = "createImporterPod" /\ helper.out = NilPod)
        /\ helper.remote[1].result = "ok" => (helper.err = NoErr /\ helper.out.uid # "" /\ [helper.out EXCEPT !.uid = ""] = helper.manifest)

\* C16 witness: the creation failed
C16_Witness ==
    /\ Called("createImporterPod")
    /\ helper.remote[1].result = "error"
    /\ helper.err.kind = "createImporterPod"
    /\ helper.out = NilPod

\* C17: the worker name is the fixed prefix, the separator and the claim
\* name, whatever the endpoint and the credential name, and no claim with
\* another name gets the same worker name.
C17_WorkerNameFromClaimName ==
    Called("createImporterPod") =>
        /\ helper.manifest.name = IMPORTER_PODNAME \o <<"-">> \o helper.pvc.name
        /\ \A n \in Names : n # helper.pvc.name => PodName(n) # helper.manifest.name

\* C17 witness: a claim name that contains the separator
C17_Witness ==
    /\ Called("createImporterPod")
    /\ helper.pvc.name = <<"a", "-">>
    /\ helper.secret = "sec1"
    /\ helper.manifest.name = IMPORTER_PODNAME \o <<"-", "a", "-">>

\* C18: the manifest has exactly one volume, bound read-write to the claim
\* the call was made for, and the restart policy "Never".
C18_OneClaimVolume ==
    Called("createImporterPod") =>
        /\ Len(helper.manifest.volumes) = 1
        /\ helper.manifest.volumes[1].claimName = helper.pvc.name
        /\ helper.manifest.volumes[1].readOnly = FALSE
        /\ helper.manifest.restartPolicy = "Never"
        /\ helper.manifest.containers[1].volumeMounts = <<helper.manifest.volumes[1].name>>

\* C18 witness: a manifest built without credentials for the claim "-a"
C18_Witness ==
    /\ Called("createImporterPod")
    /\ helper.pvc.name = <<"-", "a">>
    /\ helper.secret = ""
    /\ helper.manifest.volumes[1].claimName = <<"-", "a">>

====
